---- MODULE Spec2Model ----
(***************************************************************************)
(* Model of stdpipe/pipeline.py: the three higher-level orchestrators      *)
(* refine_astrometry, filter_transient_candidates and calibrate_photometry *)
(* together with the external primitives they call (photometry.match,      *)
(* astrometry.refine_wcs, astrometry.refine_wcs_scamp, htm match and the   *)
(* catalogs.xmatch_* adapters), which are modelled as deterministic but    *)
(* otherwise arbitrary functions of their inputs.                          *)
(***************************************************************************)
EXTENDS Integers, Sequences, FiniteSets, TLC

VARIABLES
    pc,         \* position in the running routine
    args,       \* arguments of the call
    obj,        \* the caller's object table
    obj0,       \* the caller's object table as it was when the call was made
    wcs,        \* refine_astrometry: local variable wcs
    iter,       \* refine_astrometry: loop variable iter
    m,          \* refine_astrometry: local variable m (last Match Result)
    ret,        \* value returned to the caller
    out,        \* messages printed so far by this call
    calls,      \* calls made so far by this call to the external primitives
    matchMemo,  \* photometry.match as a function: input -> result seen so far
    fitMemo,    \* astrometry.refine_wcs / refine_wcs_scamp, likewise
    run,        \* number of the current call (successive identical calls)
    prev,       \* outcome of the previous call
    sr,         \* filter_transient_candidates: local variable sr
    col_id,     \* filter_transient_candidates: local variable col_id
    lobj,       \* filter_transient_candidates: local variable obj
    cand_idx,   \* filter_transient_candidates: rows where cand_idx is True
    vi,         \* filter_transient_candidates: position in the vizier list
    time        \* filter_transient_candidates: local variable time

refineVars == <<wcs, iter, m, matchMemo, fitMemo, run, prev>>
filterVars == <<sr, col_id, lobj, cand_idx, vi, time>>

vars == <<pc, args, obj, obj0, ret, out, calls, refineVars, filterVars>>

----------------------------------------------------------------------------
(* Bounds of the model *)

NPairs == 2        \* candidate pairs in a Match Result
NWcs == 2          \* distinct WCS Solutions
MaxIter == 2       \* largest n_iter
MaxRuns == 2       \* successive calls with the same arguments
NRows == 2         \* rows of the table given to filter_transient_candidates
MaxVizier == 2     \* longest vizier list

----------------------------------------------------------------------------
(* Values *)

None == [k |-> "None"]       \* Python's None
Unset == [k |-> "unset"]     \* a local variable not assigned yet
Raised == [k |-> "raised"]   \* outcome of a call that ended with an exception

\* the WCS Solutions
WcsIds == {[k |-> "wcs", id |-> i] : i \in 1..NWcs}
Methods == {"astropy", "scamp"}

\* sky positions (ra, dec columns) of the table: those the caller supplied,
\* or the image of the pixel positions (x, y) under a WCS Solution
CallerPos == [src |-> "caller", w |-> None]

\* wcs.all_pix2world(obj['x'], obj['y'], 0)
all_pix2world(w) == [src |-> "pix2world", w |-> w]

\* candidate pairs of a Match Result, the parallel arrays oidx, cidx, idx:
\* the k-th pair is row k of the object table with row NPairs+1-k of the
\* catalogue, and the mask is any
PairSeqs ==
    {[k \in 1..NPairs |-> [oidx |-> k, cidx |-> NPairs + 1 - k, idx |-> mask[k]]] :
        mask \in [1..NPairs -> BOOLEAN]}

\* what photometry.match can return: a Match Result or None
MatchResults == {[k |-> "match", pairs |-> ps] : ps \in PairSeqs} \cup {None}

\* what astrometry.refine_wcs and refine_wcs_scamp can return
FitResults == WcsIds \cup {None}

\* np.sum(m['idx'])
RECURSIVE SumIdx(_)
SumIdx(ps) ==
    IF Len(ps) = 0 THEN 0
    ELSE (IF ps[1].idx THEN 1 ELSE 0) + SumIdx(Tail(ps))

\* obj[m['oidx']][m['idx']], cat[m['cidx']][m['idx']]: the rows of the
\* object table and of the catalogue selected by the mask, pair by pair
RECURSIVE Masked(_)
Masked(ps) ==
    IF Len(ps) = 0 THEN <<>>
    ELSE (IF ps[1].idx THEN <<[o |-> ps[1].oidx, c |-> ps[1].cidx]>> ELSE <<>>)
         \o Masked(Tail(ps))

\* log = print if verbose else lambda *args,**kwargs: None
Log(o, verbose, msg) == IF verbose THEN Append(o, msg) ELSE o

\* truth value of "not m" for None or a Match Result (a non-empty dict)
NotM(mm) == mm = None

\* the comparison with <= in place of <
TooFewOrEqual(mm, min_matches) == SumIdx(mm.pairs) <= min_matches

\* np.sum(m['idx']) < min_matches
TooFew(mm, min_matches) == SumIdx(mm.pairs) < min_matches

\* the comparison with a name that no caller passes
IsScampMisspelt(method) == method = "SCAMP"

\* if method == 'scamp'
IsScamp(method) == method = "scamp"

\* a loop that stops one pass early
LoopDoneEarly(i, n_iter) == i + 1 >= n_iter

\* range(n_iter) exhausted
LoopDone(i, n_iter) == i >= n_iter

\* a write-back that is never made
WriteBackNever(update) == FALSE

\* a write-back that ignores the flag
WriteBackAlways(update) == TRUE

\* if update: (write the refined positions back to the table)
WriteBack(update) == update

\* a deterministic primitive: the same input gives the same result
Memoised(memo, key, res) ==
    IF key \in DOMAIN memo THEN res = memo[key] ELSE TRUE

Remember(memo, key, res) ==
    IF key \in DOMAIN memo THEN memo ELSE (key :> res) @@ memo

EmptyMemo == [k \in {} |-> None]

\* a matching radius of q quarters of an arc second (q/14400 of a degree)
Radius(q) == [k |-> "radius", q |-> q]

\* the number of rows of a table below which a column is sorted
Smaller(col, r) ==
    Cardinality({j \in DOMAIN col : col[j] < col[r] \/ (col[j] = col[r] /\ j < r)})

\* twice np.median(col): the sum of the two middle values of the sorted
\* column, which are the same value when the number of rows is odd
Median2(col) ==
    LET n == Cardinality(DOMAIN col)
        at(k) == col[CHOOSE r \in DOMAIN col : Smaller(col, r) = k]
    IN at((n - 1) \div 2) + at(n \div 2)

\* the policy with the median taken but not halved
MatchingRadiusWhole(a_sr, a_pixscale, fwhm) ==
    IF a_sr = None
    THEN IF a_pixscale # None
         THEN Radius(2 * Median2([r \in DOMAIN fwhm |-> fwhm[r] * a_pixscale.v]))
         ELSE Radius(4)
    ELSE a_sr

\* lines 78-84 and 155-161: the matching radius, from the arguments sr and
\* pixscale (in arc seconds per pixel) and the fwhm column (in pixels)
MatchingRadius(a_sr, a_pixscale, fwhm) ==
    IF a_sr = None
    THEN IF a_pixscale # None
         THEN Radius(Median2([r \in DOMAIN fwhm |-> fwhm[r] * a_pixscale.v]))
         ELSE Radius(4)
    ELSE a_sr

----------------------------------------------------------------------------
(* refine_astrometry *)

RefineArgs ==
    [wcs : WcsIds \cup {None},
     n_iter : 0..MaxIter,
     use_photometry : BOOLEAN,
     min_matches : 0..NPairs,
     method : Methods,
     update : BOOLEAN,
     verbose : BOOLEAN]

InitRefine ==
    /\ pc = "start"
    /\ args \in RefineArgs
    /\ obj = [pos |-> CallerPos]
    /\ obj0 = obj
    /\ wcs = Unset
    /\ iter = 0
    /\ m = Unset
    /\ ret = Unset
    /\ out = <<>>
    /\ calls = <<>>
    /\ matchMemo = EmptyMemo
    /\ fitMemo = EmptyMemo
    /\ run = 1
    /\ prev = Unset
    /\ sr = Unset
    /\ col_id = Unset
    /\ lobj = Unset
    /\ cand_idx = {}
    /\ vi = 0
    /\ time = Unset

\* lines 28-43: logging set-up, first message, positions from the supplied
\* wcs, and the SCAMP variant
R_Entry ==
    /\ pc = "start"
    /\ out' = Log(out, args.verbose, "L31")
    /\ LET obj1 == IF args.wcs # None
                   THEN [obj EXCEPT !.pos = all_pix2world(args.wcs)]
                   ELSE obj
       IN IF IsScamp(args.method)
          THEN \E res \in FitResults :
                 LET key == [fn |-> "refine_wcs_scamp", pos |-> obj1.pos,
                             pairs |-> <<>>]
                 IN /\ Memoised(fitMemo, key, res)
                    /\ fitMemo' = Remember(fitMemo, key, res)
                    /\ calls' = Append(calls, [fn |-> "refine_wcs_scamp",
                                               iter |-> 0, in |-> key,
                                               res |-> res])
                    \* update is passed on to refine_wcs_scamp
                    /\ obj' = IF args.update /\ res # None
                              THEN [obj1 EXCEPT !.pos = all_pix2world(res)]
                              ELSE obj1
                    /\ ret' = res
                    /\ pc' = "ret39"
                    /\ UNCHANGED <<wcs, iter>>
          ELSE /\ obj' = obj1
               /\ wcs' = args.wcs
               /\ iter' = 0
               /\ pc' = "loop"
               /\ UNCHANGED <<ret, calls, fitMemo>>
    /\ UNCHANGED <<args, obj0, m, matchMemo, run, prev, filterVars>>

\* lines 46-55: photometric matching and the test of its result
R_Match ==
    /\ pc = "loop"
    /\ ~LoopDone(iter, args.n_iter)
    /\ args.use_photometry
    /\ \E mm \in MatchResults :
         LET key == [fn |-> "match", pos |-> obj.pos]
         IN /\ Memoised(matchMemo, key, mm)
            /\ matchMemo' = Remember(matchMemo, key, mm)
            /\ calls' = Append(calls, [fn |-> "match", iter |-> iter,
                                       in |-> key, res |-> mm])
            /\ m' = mm
            /\ IF NotM(mm)
               THEN \* the argument of log on line 51 reads m['idx']
                    /\ pc' = "raised"
                    /\ UNCHANGED <<out, ret>>
               ELSE IF TooFew(mm, args.min_matches)
               THEN /\ out' = Log(out, args.verbose, "L51")
                    /\ ret' = None
                    /\ pc' = "ret52"
               ELSE /\ out' = Log(out, args.verbose, "L54")
                    /\ pc' = "fit"
                    /\ UNCHANGED ret
    /\ UNCHANGED <<args, obj, obj0, wcs, iter, fitMemo, run, prev, filterVars>>

\* lines 62-63 and the end of the loop body, after the fit returned w
AfterFit(w) ==
    /\ wcs' = w
    /\ IF WriteBack(args.update)
       THEN IF w = None
            THEN \* None has no all_pix2world
                 /\ pc' = "raised"
                 /\ UNCHANGED <<obj, iter>>
            ELSE /\ obj' = [obj EXCEPT !.pos = all_pix2world(w)]
                 /\ iter' = iter + 1
                 /\ pc' = "loop"
       ELSE /\ iter' = iter + 1
            /\ pc' = "loop"
            /\ UNCHANGED obj

\* line 57, then 62-63: the fit on the matched pairs selected by the mask
R_Fit ==
    /\ pc = "fit"
    /\ \E w \in FitResults :
         LET key == [fn |-> "refine_wcs", pos |-> obj.pos, pairs |-> Masked(m.pairs)]
         IN /\ Memoised(fitMemo, key, w)
            /\ fitMemo' = Remember(fitMemo, key, w)
            /\ calls' = Append(calls, [fn |-> "refine_wcs", iter |-> iter,
                                       in |-> key, res |-> w])
            /\ AfterFit(w)
    /\ UNCHANGED <<args, obj0, m, ret, out, matchMemo, run, prev, filterVars>>

\* line 60, then 62-63: the fit with simple positional matching
R_FitPos ==
    /\ pc = "loop"
    /\ ~LoopDone(iter, args.n_iter)
    /\ ~args.use_photometry
    /\ \E w \in FitResults :
         LET key == [fn |-> "refine_wcs_match", pos |-> obj.pos, pairs |-> <<>>]
         IN /\ Memoised(fitMemo, key, w)
            /\ fitMemo' = Remember(fitMemo, key, w)
            /\ calls' = Append(calls, [fn |-> "refine_wcs", iter |-> iter,
                                       in |-> key, res |-> w])
            /\ AfterFit(w)
    /\ UNCHANGED <<args, obj0, m, ret, out, matchMemo, run, prev, filterVars>>

\* line 66
R_Return ==
    /\ pc = "loop"
    /\ LoopDone(iter, args.n_iter)
    /\ ret' = wcs
    /\ pc' = "ret66"
    /\ UNCHANGED <<args, obj, obj0, wcs, iter, m, out, calls,
                   matchMemo, fitMemo, run, prev, filterVars>>

RefineDone == pc \in {"ret39", "ret52", "ret66", "raised"}

\* what the caller gets from the call
Outcome == IF pc = "raised" THEN Raised ELSE ret

\* the caller calls refine_astrometry again with the same arguments and the
\* same table
R_CallAgain ==
    /\ RefineDone
    /\ run < MaxRuns
    /\ run' = run + 1
    /\ prev' = Outcome
    /\ obj0' = obj
    /\ pc' = "start"
    /\ wcs' = Unset
    /\ iter' = 0
    /\ m' = Unset
    /\ ret' = Unset
    /\ out' = <<>>
    /\ calls' = <<>>
    /\ UNCHANGED <<args, obj, matchMemo, fitMemo, filterVars>>

NextRefine ==
    \/ R_Entry
    \/ R_Match
    \/ R_Fit
    \/ R_FitPos
    \/ R_Return

\* one call of refine_astrometry, any arguments
SpecRefine == InitRefine /\ [][NextRefine]_vars

\* successive calls of refine_astrometry with n_iter = 1, the same arguments
\* and the same table
InitTwice == InitRefine /\ args.n_iter = 1

NextTwice ==
    \/ NextRefine
    \/ R_CallAgain

SpecTwice == InitTwice /\ [][NextTwice]_vars

\* a call that has started runs to its end: the body is straight-line code
\* around a bounded loop and every primitive returns
FairRefine == SpecRefine /\ WF_vars(NextRefine)

----------------------------------------------------------------------------
(* filter_transient_candidates *)

Rows == 1..NRows

\* values an identifier column can hold
IdVals == 0..(NRows - 1)

\* np.arange(len(obj))
Arange == [r \in Rows |-> r - 1]

\* identifier columns a caller may supply: one value repeated in every row
\* (the column the routine adds itself holds distinct values)
CallerIdCols == {[r \in Rows |-> 0]}

\* catalogue names a caller may list, in an order of priority, and those
\* catalogs.catalogs has an entry for
CatNames == <<"ps1", "gsc", "nosuch">>
KnownCatalogs == {"ps1", "usnob1", "gsc"}

\* vizier lists a caller may pass: up to MaxVizier of the names, in the
\* order of priority
VizierLists ==
    {v \in UNION {[1..n -> 1..Len(CatNames)] : n \in 0..MaxVizier} :
        \A i, j \in 1..Len(v) : i < j => v[i] < v[j]}

\* the names of a list of positions in CatNames
Named(v) == [i \in 1..Len(v) |-> CatNames[v[i]]]

\* tables the caller may pass: a flags column from flagcols, an fwhm column
\* from fwhmcols, and optionally an identifier column named "id" and a time
\* column
FilterTablesOver(flagcols, fwhmcols) ==
    {("flags" :> fl) @@ ("fwhm" :> fw) @@ idc @@ tc :
        fl \in flagcols,
        fw \in fwhmcols,
        idc \in {EmptyMemo} \cup {("id" :> c) : c \in CallerIdCols},
        tc \in {EmptyMemo, ("time" :> [r \in Rows |-> 1])}}

\* tables of objects that all have the same width
FilterTables == FilterTablesOver([Rows -> 0..1], {[r \in Rows |-> 1]})

\* an argument the caller supplied
Given(x) == [k |-> "given", v |-> x]

\* the arguments of a call, the matching radius being drawn from srs and
\* the pixel scale from pixscales
FilterArgsOver(srs, pixscales) ==
    [sr : srs,
     pixscale : pixscales,
     time : {None, Given("time")},
     cat : {None, Given("cat")},
     vizier : {Named(v) : v \in VizierLists},
     skybot : BOOLEAN,
     ned : BOOLEAN,
     flagged : BOOLEAN,
     col_id : {None, Given("id")},
     get_candidates : BOOLEAN,
     verbose : BOOLEAN]

\* calls that leave the matching radius to its default
FilterArgs == FilterArgsOver({None}, {None})

\* what catalogs.xmatch_objects, xmatch_skybot and xmatch_ned can return:
\* None, or a table of which only the identifier column is read
XcatResults == {[k |-> "rows", ids |-> S] : S \in SUBSET IdVals} \cup {None}

\* xcat is not None and len(xcat)
HasRows(x) == x # None /\ x.ids # {}

\* a test that never stops the narrowing
AnyCandAlways(c) == TRUE

\* np.any(cand_idx)
AnyCand(c) == c # {}

\* cand_idx & (obj['flags'] == 0)
Unflagged(c, t) == {r \in c : t["flags"][r] = 0}

\* a match whose pairs are not taken out of the mask
ClearMatchedNever(c, m0) == c

\* cand_idx[m[0]] = False
ClearMatched(c, m0) == c \ m0

\* the mask assigned (=) where the code combines it (&=)
NotIn1dAssigned(c, t, cid, x) == {r \in Rows : t[cid][r] \notin x.ids}

\* cand_idx & ~np.in1d(obj[col_id], xcat[col_id])
NotIn1d(c, t, cid, x) == {r \in c : t[cid][r] \notin x.ids}

\* the moving-object and the extragalactic stages exchanged
StageAfterSwapped(stage) ==
    CASE stage = "f_start" -> "flagged"
      [] stage = "flagged" -> "local"
      [] stage = "local" -> "vizier"
      [] stage = "vizier" -> "ned"
      [] stage = "ned" -> "skybot"
      [] stage = "skybot" -> "final"

\* the order of the stages in the body of the routine
StageAfter(stage) ==
    CASE stage = "f_start" -> "flagged"
      [] stage = "flagged" -> "local"
      [] stage = "local" -> "vizier"
      [] stage = "vizier" -> "skybot"
      [] stage = "skybot" -> "ned"
      [] stage = "ned" -> "final"

\* the state when the routine is called with arguments from a set and a
\* table from a set
InitFilterOver(argset, tables) ==
    /\ pc = "f_start"
    /\ args \in argset
    /\ obj \in tables
    /\ obj0 = obj
    /\ ret = Unset
    /\ out = <<>>
    /\ calls = <<>>
    /\ wcs = Unset
    /\ iter = 0
    /\ m = Unset
    /\ matchMemo = EmptyMemo
    /\ fitMemo = EmptyMemo
    /\ run = 1
    /\ prev = Unset
    /\ sr = Unset
    /\ col_id = Unset
    /\ lobj = Unset
    /\ cand_idx = {}
    /\ vi = 0
    /\ time = Unset

InitFilter == InitFilterOver(FilterArgs, FilterTables)

\* lines 75-99: logging set-up, matching radius, identifier column, the
\* working copy of the table, and the initial mask
F_Entry ==
    /\ pc = "f_start"
    /\ sr' = MatchingRadius(args.sr, args.pixscale, obj["fwhm"])
    /\ LET cid == IF args.col_id = None THEN "stdpipe_id" ELSE args.col_id.v
       IN /\ col_id' = cid
          /\ lobj' = IF cid \notin DOMAIN obj
                     THEN (cid :> Arange) @@ obj
                     ELSE obj
    /\ out' = Log(out, args.verbose, "L98")
    /\ cand_idx' = Rows
    /\ time' = args.time
    /\ vi' = 1
    /\ pc' = StageAfter("f_start")
    /\ UNCHANGED <<args, obj, obj0, ret, calls, refineVars>>

\* lines 101-104: removal of the flagged objects
F_Flagged ==
    /\ pc = "flagged"
    /\ IF args.flagged
       THEN /\ cand_idx' = Unflagged(cand_idx, lobj)
            /\ out' = Append(out, "L104")
       ELSE UNCHANGED <<cand_idx, out>>
    /\ pc' = StageAfter("flagged")
    /\ UNCHANGED <<args, obj, obj0, ret, calls, refineVars,
                   sr, col_id, lobj, vi, time>>

\* line 106 when the match is not made
F_LocalSkip ==
    /\ pc = "local"
    /\ ~(args.cat # None /\ AnyCand(cand_idx))
    /\ pc' = StageAfter("local")
    /\ UNCHANGED <<args, obj, obj0, ret, out, calls, refineVars, filterVars>>

\* lines 106-109: match with the local reference catalogue, where m0 is the
\* set of rows of obj that h.match pairs with a row of cat
F_LocalMatch(m0) ==
    /\ pc = "local"
    /\ args.cat # None /\ AnyCand(cand_idx)
    /\ calls' = Append(calls, [fn |-> "htm.match", cat |-> "cat",
                               vi |-> 0, sr |-> sr])
    /\ cand_idx' = ClearMatched(cand_idx, m0)
    /\ out' = Log(out, args.verbose, "L109")
    /\ pc' = StageAfter("local")
    /\ UNCHANGED <<args, obj, obj0, ret, refineVars,
                   sr, col_id, lobj, vi, time>>

F_Local == \E m0 \in SUBSET Rows : F_LocalMatch(m0)

\* lines 112-113 and the end of the loop over the vizier list
F_VizierEnd ==
    /\ pc = "vizier"
    /\ vi > Len(args.vizier) \/ ~AnyCand(cand_idx)
    /\ pc' = StageAfter("vizier")
    /\ UNCHANGED <<args, obj, obj0, ret, out, calls, refineVars, filterVars>>

\* lines 115-119: one pass of the loop, in which xmatch_objects returns x
F_VizierPass(x) ==
    /\ pc = "vizier"
    /\ vi <= Len(args.vizier)
    /\ AnyCand(cand_idx)
    /\ LET catname == args.vizier[vi]
       IN /\ calls' = Append(calls, [fn |-> "xmatch_objects", cat |-> catname,
                                     vi |-> vi, sr |-> sr])
          /\ cand_idx' = IF HasRows(x)
                         THEN NotIn1d(cand_idx, lobj, col_id, x)
                         ELSE cand_idx
          /\ vi' = vi + 1
          /\ IF catname \in KnownCatalogs
             THEN /\ out' = Log(out, args.verbose, "L119")
                  /\ pc' = "vizier"
             ELSE \* catalogs.catalogs.get(catname) is None, and the
                  \* argument of log on line 119 subscripts it
                  /\ pc' = "raised"
                  /\ UNCHANGED out
    /\ UNCHANGED <<args, obj, obj0, ret, refineVars, sr, col_id, lobj, time>>

F_Vizier == \E x \in XcatResults : F_VizierPass(x)

\* the time column read without the test that the table has one
TimeFromTableUntested(t, tab) == IF t = None
                                 THEN [k |-> "obj['time']"] ELSE t

\* time is None and 'time' in obj.keys()
TimeFromTable(t, tab) == IF t = None /\ "time" \in DOMAIN tab
                         THEN [k |-> "obj['time']"] ELSE t

\* lines 121-125 when the query is not made
F_SkybotSkip ==
    /\ pc = "skybot"
    /\ IF args.skybot /\ AnyCand(cand_idx)
       THEN /\ time' = TimeFromTable(time, lobj)
            /\ time' = None
       ELSE UNCHANGED time
    /\ pc' = StageAfter("skybot")
    /\ UNCHANGED <<args, obj, obj0, ret, out, calls, refineVars,
                   sr, col_id, lobj, cand_idx, vi>>

\* lines 121-129 when the moving-object query is made and returns x
F_SkybotQuery(x) ==
    /\ pc = "skybot"
    /\ args.skybot /\ AnyCand(cand_idx)
    /\ time' = TimeFromTable(time, lobj)
    /\ time' # None
    /\ calls' = Append(calls, [fn |-> "xmatch_skybot", cat |-> "skybot",
                               vi |-> 0, sr |-> None])
    /\ cand_idx' = IF HasRows(x)
                   THEN NotIn1d(cand_idx, lobj, col_id, x)
                   ELSE cand_idx
    /\ out' = Log(out, args.verbose, "L129")
    /\ pc' = StageAfter("skybot")
    /\ UNCHANGED <<args, obj, obj0, ret, refineVars, sr, col_id, lobj, vi>>

F_Skybot == \E x \in XcatResults : F_SkybotQuery(x)

\* line 131 when the query is not made
F_NedSkip ==
    /\ pc = "ned"
    /\ ~(args.ned /\ AnyCand(cand_idx))
    /\ pc' = StageAfter("ned")
    /\ UNCHANGED <<args, obj, obj0, ret, out, calls, refineVars, filterVars>>

\* lines 131-135 when the extragalactic query is made and returns x
F_NedQuery(x) ==
    /\ pc = "ned"
    /\ args.ned /\ AnyCand(cand_idx)
    /\ calls' = Append(calls, [fn |-> "xmatch_ned", cat |-> "ned",
                               vi |-> 0, sr |-> sr])
    /\ cand_idx' = IF HasRows(x)
                   THEN NotIn1d(cand_idx, lobj, col_id, x)
                   ELSE cand_idx
    /\ out' = Log(out, args.verbose, "L135")
    /\ pc' = StageAfter("ned")
    /\ UNCHANGED <<args, obj, obj0, ret, refineVars,
                   sr, col_id, lobj, vi, time>>

F_Ned == \E x \in XcatResults : F_NedQuery(x)

\* a selection that ignores the mask and takes every row
SelectRowsUnmasked(t, c) ==
    [k |-> "table", cols |-> DOMAIN t, rows |-> [r \in Rows |-> r]]

\* obj_in[cand_idx].copy(): a new table with the selected rows, in order
SelectRows(t, c) ==
    [k |-> "table", cols |-> DOMAIN t,
     rows |-> SelectSeq([r \in Rows |-> r], LAMBDA r : r \in c)]

\* lines 137-142
F_Return ==
    /\ pc = "final"
    /\ out' = Log(out, args.verbose, "L137")
    /\ IF args.get_candidates
       THEN /\ ret' = SelectRows(obj, cand_idx)
            /\ pc' = "ret140"
       ELSE /\ ret' = [k |-> "mask", idx |-> cand_idx]
            /\ pc' = "ret142"
    /\ UNCHANGED <<args, obj, obj0, calls, refineVars, filterVars>>

NextFilter ==
    \/ F_Entry
    \/ F_Flagged
    \/ F_LocalSkip
    \/ F_Local
    \/ F_VizierEnd
    \/ F_Vizier
    \/ F_SkybotSkip
    \/ F_Skybot
    \/ F_NedSkip
    \/ F_Ned
    \/ F_Return

\* one call of filter_transient_candidates, any arguments
SpecFilter == InitFilter /\ [][NextFilter]_vars

----------------------------------------------------------------------------
(* calibrate_photometry *)

\* radii and pixel scales a caller may pass
RadiusArgs == {None, Radius(0)}
PixscaleArgs == {None, Given(3)}

\* fwhm columns of objects of two widths
FwhmCols == [Rows -> {1, 3}]

\* a column of a table that the model does not look into
Column(name) == [k |-> "column", name |-> name]

\* tables the caller may pass: the magnitudes, the widths, and optionally a
\* mag_calib column left by an earlier calibration
CalibTables ==
    {("mag" :> Column("mag")) @@ ("fwhm" :> fw) @@ mc :
        fw \in FwhmCols,
        mc \in {EmptyMemo, ("mag_calib" :> Column("mag_calib"))}}

CalibArgs ==
    [sr : RadiusArgs,
     pixscale : PixscaleArgs,
     cat_col_mag1 : {None, Given("B")},
     cat_col_mag2 : {None, Given("V")},
     update : BOOLEAN,
     verbose : BOOLEAN]

\* a number
Num(x) == [k |-> "num", v |-> x]

\* what photometry.match can return to calibrate_photometry: None, or a
\* Match Result of which the color term (None or a number) and the
\* zero-point function are read
CalibMatchResults ==
    {[k |-> "match", color_term |-> ct, zero_fn |-> [k |-> "zero_fn", id |-> z]] :
        ct \in {None, Num(0), Num(1)}, z \in {"zf1", "zf2"}} \cup {None}

\* truth value of None, a number, a string or a Match Result
Truthy(x) == x # None /\ x # Num(0)

\* cat[col]: a column of the catalogue, which has none named None
HasColumn(col) == col # None

\* the assignment made to the mag column
CalibWriteMag(t, mm) ==
    ("mag" :> [k |-> "mag+zero_fn(x,y)", zero_fn |-> mm.zero_fn]) @@ t

\* obj['mag_calib'] = obj['mag'] + m['zero_fn'](obj['x'], obj['y'])
CalibWrite(t, mm) ==
    ("mag_calib" :> [k |-> "mag+zero_fn(x,y)", zero_fn |-> mm.zero_fn]) @@ t

InitCalib ==
    /\ pc = "c_start"
    /\ args \in CalibArgs
    /\ obj \in CalibTables
    /\ obj0 = obj
    /\ ret = Unset
    /\ out = <<>>
    /\ calls = <<>>
    /\ wcs = Unset
    /\ iter = 0
    /\ m = Unset
    /\ matchMemo = EmptyMemo
    /\ fitMemo = EmptyMemo
    /\ run = 1
    /\ prev = Unset
    /\ sr = Unset
    /\ col_id = Unset
    /\ lobj = Unset
    /\ cand_idx = {}
    /\ vi = 0
    /\ time = Unset

\* lines 153-166: logging set-up, matching radius and the first messages
K_Entry ==
    /\ pc = "c_start"
    /\ sr' = MatchingRadius(args.sr, args.pixscale, obj["fwhm"])
    /\ LET o1 == Log(Log(out, args.verbose, "L163"), args.verbose, "L164")
       IN out' = IF Truthy(args.cat_col_mag1) /\ Truthy(args.cat_col_mag2)
                 THEN Log(o1, args.verbose, "L166")
                 ELSE o1
    /\ pc' = "c_match"
    /\ UNCHANGED <<args, obj, obj0, ret, calls, refineVars,
                   col_id, lobj, cand_idx, vi, time>>

\* lines 168-172: the arguments of photometry.match are evaluated, then the
\* call is made
K_Match ==
    /\ pc = "c_match"
    /\ IF HasColumn(args.cat_col_mag1) /\ HasColumn(args.cat_col_mag2)
       THEN \E mm \in CalibMatchResults :
              /\ calls' = Append(calls,
                     [fn |-> "photometry.match", cat |-> "cat", vi |-> 0,
                      sr |-> sr,
                      cat_color |-> <<args.cat_col_mag1.v, args.cat_col_mag2.v>>,
                      res |-> mm])
              /\ m' = mm
              /\ pc' = "c_matched"
       ELSE \* cat[cat_col_mag1] or cat[cat_col_mag2] subscripts the
            \* catalogue with None
            /\ pc' = "raised"
            /\ UNCHANGED <<calls, m>>
    /\ UNCHANGED <<args, obj, obj0, ret, out, wcs, iter, matchMemo, fitMemo,
                   run, prev, filterVars>>

\* lines 174-184: messages, the calibrated magnitudes, and the return
K_Return ==
    /\ pc = "c_matched"
    /\ IF Truthy(m)
       THEN /\ out' = IF Truthy(m.color_term)
                      THEN Log(Log(out, args.verbose, "L175"), args.verbose, "L177")
                      ELSE Log(out, args.verbose, "L175")
            /\ obj' = IF args.update THEN CalibWrite(obj, m) ELSE obj
       ELSE /\ out' = Log(out, args.verbose, "L182")
            /\ UNCHANGED obj
    /\ ret' = m
    /\ pc' = "ret184"
    /\ UNCHANGED <<args, obj0, calls, refineVars, filterVars>>

NextCalib ==
    \/ K_Entry
    \/ K_Match
    \/ K_Return

\* one call of calibrate_photometry, any arguments
SpecCalib == InitCalib /\ [][NextCalib]_vars

\* a call of filter_transient_candidates with any radius arguments, on a
\* table of unflagged objects of any widths, the options that do not bear on
\* the radius being fixed
InitFilterRadius ==
    InitFilterOver(
        {a \in FilterArgsOver(RadiusArgs, PixscaleArgs) :
            ~a.flagged /\ ~a.verbose /\ ~a.get_candidates /\ a.col_id = None},
        FilterTablesOver({[r \in Rows |-> 0]}, FwhmCols))

InitRadius == InitFilterRadius \/ InitCalib

NextRadius ==
    \/ NextFilter
    \/ NextCalib

\* one call of filter_transient_candidates or of calibrate_photometry, the
\* matching radius and the pixel scale being given or not
SpecRadius == InitRadius /\ [][NextRadius]_vars

----------------------------------------------------------------------------
(* Properties of refine_astrometry *)

\* number of True entries of a mask
GoodCount(res) == Cardinality({i \in 1..Len(res.pairs) : res.pairs[i].idx})

\* the pairs of a Match Result that the mask selects, in their order
Selected(res) ==
    LET sel == SelectSeq(res.pairs, LAMBDA p : p.idx)
    IN [i \in 1..Len(sel) |-> [o |-> sel[i].oidx, c |-> sel[i].cidx]]

FitCalls == {i \in 1..Len(calls) : calls[i].fn = "refine_wcs"}
MatchCalls == {i \in 1..Len(calls) : calls[i].fn = "match"}

\* C1: when photometry.match returns None the routine returns None to the
\* caller and raises nothing, whatever verbose is
C1_NullMatchReturnsNull ==
    m = None => (pc = "ret52" /\ ret = None)

\* C2: with update=False the ra and dec columns of the caller's table are
\* after the call what they were before it, for every method and wcs
C2_NoWriteWithoutUpdate ==
    ~args.update => obj.pos = obj0.pos

\* C7: given a Match Result, the iteration aborts exactly when the number of
\* good pairs is below min_matches: the routine then returns None at once,
\* with no fit in that iteration and no further iteration; otherwise the fit
\* is called, in the same iteration, on exactly the pairs the mask selects
C7_AbortIffTooFew ==
    args.use_photometry =>
      /\ \A i \in MatchCalls :
           calls[i].res # None =>
             IF GoodCount(calls[i].res) < args.min_matches
             THEN i = Len(calls) /\ pc = "ret52" /\ ret = None
             ELSE \/ i = Len(calls) /\ pc = "fit"
                  \/ /\ i < Len(calls)
                     /\ calls[i+1].fn = "refine_wcs"
                     /\ calls[i+1].iter = calls[i].iter
                     /\ calls[i+1].in.pairs = Selected(calls[i].res)
      /\ \A j \in FitCalls :
           /\ j > 1
           /\ calls[j-1].fn = "match"
           /\ calls[j-1].res # None
           /\ GoodCount(calls[j-1].res) >= args.min_matches
      /\ pc = "ret52" =>
           /\ calls[Len(calls)].fn = "match"
           /\ GoodCount(calls[Len(calls)].res) < args.min_matches

\* a second iteration aborts after a first one passed with exactly
\* min_matches good pairs, one of the candidate pairs being masked out
C7_Witness ==
    /\ pc = "ret52"
    /\ Len(calls) = 3
    /\ GoodCount(calls[1].res) = args.min_matches
    /\ Len(calls[1].res.pairs) > args.min_matches
    /\ args.min_matches > 0

\* C8: with method='scamp' the loop is never entered: no call of
\* photometry.match or astrometry.refine_wcs, exactly one call of
\* refine_wcs_scamp, whose result is returned unchanged
C8_ScampBypassesLoop ==
    args.method = "scamp" =>
      /\ pc \in {"start", "ret39"}
      /\ pc = "start" => calls = <<>>
      /\ pc = "ret39" =>
           /\ Len(calls) = 1
           /\ calls[1].fn = "refine_wcs_scamp"
           /\ ret = calls[1].res

C8_Witness ==
    /\ pc = "ret39"
    /\ args.n_iter > 0
    /\ args.use_photometry
    /\ ret \in WcsIds
    /\ args.wcs # None /\ ret # args.wcs

\* C9 (state part): a call that reaches the final return has made exactly
\* n_iter iterations and n_iter fits, and returns the result of the last
\* fit, or the wcs it was given when n_iter = 0
C9_ReturnsLastFit ==
    pc = "ret66" =>
      /\ iter = args.n_iter
      /\ Cardinality(FitCalls) = args.n_iter
      /\ IF args.n_iter = 0
         THEN calls = <<>> /\ ret = args.wcs
         ELSE /\ calls[Len(calls)].fn = "refine_wcs"
              /\ calls[Len(calls)].iter = args.n_iter - 1
              /\ ret = calls[Len(calls)].res

\* C9: for a non-scamp method the routine always terminates, and when no
\* iteration aborts it does so after exactly n_iter iterations and n_iter
\* fits, returning the result of the last fit (the given wcs if n_iter = 0)
C9_TerminatesWithLastFit ==
    /\ []C9_ReturnsLastFit
    /\ <>RefineDone

\* two fits were made and the value returned is that of the second
C9_Witness ==
    /\ pc = "ret66"
    /\ args.n_iter = 2
    /\ Len(calls) >= 2
    /\ calls[Len(calls)].res # calls[Len(calls) - 1].res
    /\ \E i \in FitCalls : i < Len(calls) /\ calls[i].res # ret

\* C10: with n_iter=1 and update=False, a second call with the same arguments
\* and the same table ends as the first did (the same WCS Solution), whether
\* a wcs is supplied or not
C10_SecondCallSameResult ==
    (run >= 2 /\ RefineDone /\ args.n_iter = 1 /\ ~args.update)
      => Outcome = prev

\* the second call returned a fitted solution
C10_Witness ==
    /\ run = 2
    /\ pc = "ret66"
    /\ args.n_iter = 1
    /\ ~args.update
    /\ args.use_photometry
    /\ ret \in WcsIds
    /\ ret # args.wcs

\* C15: with a non-scamp method, when the fit returns None, in either
\* matching mode and for either value of update, the routine does not
\* raise, and when that was the last iteration the caller gets None
C15_NullFitReturnsNull ==
    (/\ ~IsScamp(args.method)
     /\ calls # <<>>
     /\ calls[Len(calls)].fn = "refine_wcs"
     /\ calls[Len(calls)].res = None)
      => /\ pc # "raised"
         /\ pc = "ret66" => ret = None

\* C16: with update, after every iteration the positions of the table are
\* the image of the pixel positions under the WCS Solution fitted in that
\* iteration, and the next iteration's matching reads them; without update,
\* the matching of every iteration reads the positions that the first read
C16_PositionsFeedForward ==
    ~IsScamp(args.method) =>
      /\ args.update =>
           \A i \in FitCalls :
              calls[i].res # None =>
                /\ i = Len(calls) => obj.pos = all_pix2world(calls[i].res)
                /\ i < Len(calls) =>
                     /\ calls[i+1].iter = calls[i].iter + 1
                     /\ calls[i+1].in.pos = all_pix2world(calls[i].res)
      /\ ~args.update =>
           \A i \in 1..Len(calls) : calls[i].in.pos = calls[1].in.pos
      /\ \A i \in MatchCalls :
           i < Len(calls) => calls[i+1].in.pos = calls[i].in.pos

\* two iterations with update: the second match read the positions made by
\* the first fit, and the table holds those made by the second
C16_Witness ==
    /\ pc = "ret66"
    /\ args.update
    /\ args.use_photometry
    /\ Len(calls) = 4
    /\ calls[3].fn = "match"
    /\ calls[3].in.pos = all_pix2world(calls[2].res)
    /\ calls[1].in.pos # calls[3].in.pos
    /\ calls[4].res # calls[2].res
    /\ obj.pos = all_pix2world(calls[4].res)

----------------------------------------------------------------------------
(* Properties of filter_transient_candidates *)

FilterDone == pc \in {"ret140", "ret142", "raised"}

\* the stage a call belongs to
Rank(c) ==
    CASE c.fn = "htm.match" -> 1
      [] c.fn = "xmatch_objects" -> 2
      [] c.fn = "xmatch_skybot" -> 3
      [] c.fn = "xmatch_ned" -> 4

CallsOf(fn) == {i \in 1..Len(calls) : calls[i].fn = fn}

\* C3: after every stage the set of surviving candidates is a subset of the
\* set before it, whatever the matcher and the adapters return
C3_MonotonicNarrowing ==
    [][pc # "f_start" => cand_idx' \subseteq cand_idx]_vars

\* three stages have each dropped a candidate or left some, after queries
C3_Witness ==
    /\ pc = "final"
    /\ Len(calls) >= 3
    /\ cand_idx # {}
    /\ cand_idx # Rows
    /\ args.flagged
    /\ \E r \in Rows : lobj["flags"][r] # 0

\* C4: once the set of surviving candidates is empty, no call is made any
\* more to the matcher or to any query adapter
C4_NoCallsOnceEmpty ==
    [][(pc \notin {"f_start", "flagged"} /\ cand_idx = {})
         => calls' = calls]_vars

\* the local match emptied the set, and every later stage was enabled
C4_Witness ==
    /\ pc \in {"ret140", "ret142"}
    /\ cand_idx = {}
    /\ Len(calls) = 1
    /\ calls[1].fn = "htm.match"
    /\ Len(args.vizier) = MaxVizier
    /\ args.skybot
    /\ args.time # None
    /\ args.ned

\* C5: a query that returns None or an empty table leaves the set of
\* surviving candidates as it was and the routine goes on to the next stage
\* without raising, for the external catalogues (also one that
\* catalogs.catalogs does not list), the moving-object and the extragalactic
\* query
C5_EmptyResultIsNoOp ==
    [][\A x \in XcatResults :
          (~HasRows(x) /\ (F_VizierPass(x) \/ F_SkybotQuery(x) \/ F_NedQuery(x)))
            => (cand_idx' = cand_idx /\ pc' # "raised")]_vars

\* C6: the stages run in the declared order: flagged removal, local match,
\* the external catalogues in the order of the vizier list, the
\* moving-object query, the extragalactic query; a query is made only after
\* every earlier enabled stage is complete
C6_StagesInOrder ==
    /\ \A i, j \in 1..Len(calls) :
         i < j => \/ Rank(calls[i]) < Rank(calls[j])
                  \/ /\ calls[i].fn = "xmatch_objects"
                     /\ calls[j].fn = "xmatch_objects"
                     /\ calls[i].vi < calls[j].vi
    /\ \A i \in CallsOf("xmatch_objects") :
         /\ calls[i].cat = args.vizier[calls[i].vi]
         /\ \A k \in 1..(calls[i].vi - 1) :
              \E j \in 1..(i - 1) :
                 calls[j].fn = "xmatch_objects" /\ calls[j].vi = k
    /\ calls # <<>> =>
         /\ pc \notin {"f_start", "flagged"}
         /\ args.flagged => \A r \in cand_idx : lobj["flags"][r] = 0
    /\ (CallsOf("xmatch_objects") \cup CallsOf("xmatch_skybot")
          \cup CallsOf("xmatch_ned")) # {}
         => (args.cat # None => CallsOf("htm.match") # {})
    /\ (CallsOf("xmatch_skybot") \cup CallsOf("xmatch_ned")) # {}
         => Cardinality(CallsOf("xmatch_objects")) = Len(args.vizier)
    /\ CallsOf("xmatch_ned") # {}
         => ((args.skybot /\ (args.time # None \/ "time" \in DOMAIN obj))
               => CallsOf("xmatch_skybot") # {})

\* every stage made its query, two external catalogues among them
C6_Witness ==
    /\ pc = "final"
    /\ Len(calls) = 5
    /\ calls[5].fn = "xmatch_ned"
    /\ args.vizier[1] # args.vizier[2]
    /\ args.flagged

\* the rows of a set, in the order of the table
InOrder(c, rows) ==
    /\ {rows[i] : i \in 1..Len(rows)} = c
    /\ \A i, j \in 1..Len(rows) : i < j => rows[i] < rows[j]

\* C11: the caller's table is never modified: at every point of a call it has
\* the columns and the rows it had before; the synthetic identifier column
\* is added to the working copy only; and with get_candidates the value
\* returned holds the caller's columns and exactly the rows that the final
\* mask selects, in their original order
C11_CallerTableUntouched ==
    /\ obj = obj0
    /\ pc # "f_start" =>
         /\ col_id \in DOMAIN lobj
         /\ DOMAIN lobj = DOMAIN obj0 \cup {col_id}
         /\ \A c \in DOMAIN obj0 : lobj[c] = obj0[c]
         /\ col_id \notin DOMAIN obj0 => lobj[col_id] = Arange
    /\ pc = "ret140" =>
         /\ args.get_candidates
         /\ ret.k = "table"
         /\ ret.cols = DOMAIN obj0
         /\ InOrder(cand_idx, ret.rows)
    /\ pc = "ret142" =>
         /\ ~args.get_candidates
         /\ ret = [k |-> "mask", idx |-> cand_idx]

\* a call on a table without identifier column returned some of its rows
C11_Witness ==
    /\ pc = "ret140"
    /\ col_id \notin DOMAIN obj0
    /\ lobj # obj
    /\ cand_idx # {}
    /\ cand_idx # Rows
    /\ calls # <<>>

\* every row is flagged or in the set m0
AllFlaggedOrIn(m0) == \A r \in Rows : lobj["flags"][r] # 0 \/ r \in m0

\* the local match takes its pairs out of the mask, and empties it when
\* every object is flagged or paired
LocalMatchClears ==
    \A m0 \in SUBSET Rows :
       F_LocalMatch(m0) =>
         /\ cand_idx' \cap m0 = {}
         /\ (args.flagged /\ AllFlaggedOrIn(m0)) => cand_idx' = {}

\* after the local match no row is put back, and an empty mask is followed
\* by no call and an empty result
NoRowPutBack ==
    pc \in {"vizier", "skybot", "ned", "final"} =>
      /\ cand_idx' \subseteq cand_idx
      /\ cand_idx = {} => calls' = calls
      /\ (pc = "final" /\ cand_idx = {}) =>
           ret' \in {SelectRows(obj0, {}), [k |-> "mask", idx |-> {}]}

\* C12: the result holds no flagged object when the removal of flagged
\* objects is enabled, and no object that the local match paired with a row
\* of the catalogue: the match takes its pairs out of the mask, no later
\* stage puts a row back, and when every object is flagged or paired the
\* mask is empty after the match, no external query follows and the result
\* is empty
C12_NoFlaggedNoMatched ==
    /\ [](pc \in {"final", "ret140", "ret142"} /\ args.flagged
            => \A r \in cand_idx : obj0["flags"][r] = 0)
    /\ [][LocalMatchClears]_vars
    /\ [][NoRowPutBack]_vars

\* the scenario of two objects, the first paired with the local catalogue
\* and the second flagged, every external stage being enabled: the result is
\* empty and the local match is the only call made
C12_Witness ==
    /\ pc = "ret140"
    /\ args.flagged
    /\ args.cat # None
    /\ obj0["flags"][1] = 0
    /\ obj0["flags"][2] = 1
    /\ Len(calls) = 1
    /\ calls[1].fn = "htm.match"
    /\ ret.rows = <<>>
    /\ args.vizier # <<>>
    /\ args.skybot
    /\ args.ned

\* a step of the moving-object stage
SkybotStep ==
    pc = "skybot" =>
      /\ calls' # calls =>
           /\ calls' = Append(calls, [fn |-> "xmatch_skybot", cat |-> "skybot",
                                      vi |-> 0, sr |-> None])
           /\ args.skybot
           /\ cand_idx # {}
           /\ \/ args.time # None /\ time' = args.time
              \/ /\ args.time = None
                 /\ "time" \in DOMAIN obj0
                 /\ time' = [k |-> "obj['time']"]
      /\ (args.time = None /\ "time" \notin DOMAIN obj0) =>
           /\ calls' = calls
           /\ cand_idx' = cand_idx
           /\ pc' = "ned"

\* C14: xmatch_skybot is called only when the moving-object stage is
\* enabled, candidates remain, and a timestamp comes from the time argument
\* or from the time column of the table; when there is neither, the stage
\* makes no call and leaves the set of candidates as it was; no other stage
\* calls xmatch_skybot
C14_SkybotNeedsTime ==
    /\ [][SkybotStep]_vars
    /\ [][pc # "skybot" => CallsOf("xmatch_skybot")' = CallsOf("xmatch_skybot")]_vars

\* the query was made with the time column of the table, and dropped a row
C14_Witness ==
    /\ pc = "ned"
    /\ args.time = None
    /\ "time" \in DOMAIN obj0
    /\ CallsOf("xmatch_skybot") # {}
    /\ time = [k |-> "obj['time']"]
    /\ cand_idx # {}
    /\ \E r \in Rows : r \notin cand_idx /\ obj0["flags"][r] = 0

----------------------------------------------------------------------------
(* Properties of calibrate_photometry and of the three routines together *)

\* C13: the mag_calib column is written exactly when update is set and
\* photometry.match returned a Match Result, no other column being touched;
\* when the match returned None the routine returns None without raising
\* and leaves the table as it was, as it does for any result with
\* update=False; and the value returned is the one photometry.match returned
C13_WritesIffUpdateAndMatch ==
    /\ pc # "ret184" => obj = obj0
    /\ calls # <<>> =>
         /\ pc \in {"c_matched", "ret184"}
         /\ Len(calls) = 1
    /\ pc = "ret184" =>
         /\ ret = calls[1].res
         /\ IF args.update /\ calls[1].res # None
            THEN /\ DOMAIN obj = DOMAIN obj0 \cup {"mag_calib"}
                 /\ obj["mag_calib"] = [k |-> "mag+zero_fn(x,y)",
                                        zero_fn |-> calls[1].res.zero_fn]
                 /\ \A c \in DOMAIN obj0 \ {"mag_calib"} : obj[c] = obj0[c]
            ELSE obj = obj0

\* a calibration replaced the mag_calib column that the table had
C13_Witness ==
    /\ pc = "ret184"
    /\ args.update
    /\ ret # None
    /\ "mag_calib" \in DOMAIN obj0
    /\ obj["mag_calib"] # obj0["mag_calib"]

\* C17: a call that names no color columns (cat_col_mag1 and cat_col_mag2
\* left at None) reaches photometry.match and ends with its result, without
\* raising
C17_ColorTermOptional ==
    (args.cat_col_mag1 = None /\ args.cat_col_mag2 = None) =>
      /\ pc # "raised"
      /\ pc = "ret184" => (Len(calls) = 1 /\ ret = calls[1].res)

\* C18: with verbose off no message is printed, on any path
C18_SilentWhenNotVerbose ==
    ~args.verbose => out = <<>>

\* the value of a column that has exactly k smaller values, counting equal
\* values as many times as they occur
OrderStat(col, k) ==
    CHOOSE v \in {col[r] : r \in DOMAIN col} :
       /\ Cardinality({r \in DOMAIN col : col[r] < v}) <= k
       /\ Cardinality({r \in DOMAIN col : col[r] <= v}) > k

\* the radius that the policy gives for the arguments and the table of the
\* call: sr if given, else half the median of fwhm*pixscale if pixscale is
\* given, else one arc second
PolicyRadius ==
    IF args.sr # None THEN args.sr
    ELSE IF args.pixscale # None
    THEN LET w == [r \in Rows |-> obj0["fwhm"][r] * args.pixscale.v]
         IN Radius(OrderStat(w, (NRows - 1) \div 2) + OrderStat(w, NRows \div 2))
    ELSE Radius(4)

\* C19 as stated: the radius is chosen at entry by the three-way policy, and
\* it is passed to every matcher and query call of the invocation
C19_RadiusToEveryCall ==
    pc \notin {"f_start", "c_start"} =>
      /\ sr = PolicyRadius
      /\ \A i \in 1..Len(calls) : calls[i].sr = sr

\* C19 as amended: the radius is chosen at entry by the three-way policy,
\* and it is passed to every call that takes a radius (the local match, the
\* external catalogue queries, the extragalactic query and
\* photometry.match); the moving-object query is called without a radius
C19_RadiusToEveryRadiusCall ==
    pc \notin {"f_start", "c_start"} =>
      /\ sr = PolicyRadius
      /\ \A i \in 1..Len(calls) :
            IF calls[i].fn = "xmatch_skybot"
            THEN calls[i].sr = None
            ELSE calls[i].sr = sr

\* a call of the filter without sr, with pixscale, on objects of different
\* widths, that made the local match, a catalogue query and the
\* extragalactic query
C19_Witness ==
    /\ pc = "final"
    /\ args.sr = None
    /\ args.pixscale # None
    /\ \E r1, r2 \in Rows : obj0["fwhm"][r1] # obj0["fwhm"][r2]
    /\ sr \notin {Radius(0), Radius(4)}
    /\ CallsOf("htm.match") # {}
    /\ CallsOf("xmatch_objects") # {}
    /\ CallsOf("xmatch_skybot") # {}
    /\ CallsOf("xmatch_ned") # {}

====
